---- MODULE Spec2Model ----
(***************************************************************************)
(* Model of detr_models/detr/data_feeder.py: the DataFeeder that turns the *)
(* labels of a batch into fixed-size class / bounding-box targets, the     *)
(* object index ranges used by the bipartite matching, and the sinusoidal  *)
(* positional encodings.                                                   *)
(*                                                                         *)
(* Numbers.  Class ids, the padding value num_classes and the label        *)
(* coordinates 0.0 and 1.0 are small integers, which float32 holds         *)
(* exactly, so they are modelled as integers.  A positional-encoding       *)
(* entry sin(p / 10000 ** (2 * i / F)) is kept symbolically as the triple  *)
(* <<"sin", p, i>> (F is fixed for one tensor).                            *)
(*                                                                         *)
(* Arrays.  A numpy array / tf tensor is a record [shape, flat] with the   *)
(* elements in row-major (C) order, so that slicing, concatenation,        *)
(* repetition and reshaping are computed the way numpy computes them and   *)
(* a dimension of size 0 keeps its place in the shape.                     *)
(***************************************************************************)
EXTENDS Integers, Sequences, FiniteSets, TLC

VARIABLES
    storage,               \* uuid -> label rows of "<path>/labels/<uuid>.txt"
    num_queries,           \* self.num_queries
    num_classes,           \* self.num_classes
    fm_shape,              \* self.fm_shape
    dim_transformer,       \* self.dim_transformer
    positional_encodings,  \* self.positional_encodings
    calls,                 \* number of __call__ invocations so far
    ret,                   \* outcome of the latest __call__
    call_args,             \* arguments of a directly called module function
    call_result,           \* outcome of its latest call
    prev_result            \* outcome of the call before that

vars == <<storage, num_queries, num_classes, fm_shape, dim_transformer,
          positional_encodings, calls, ret, call_args, call_result, prev_result>>

feeder_vars == <<storage, num_queries, num_classes, fm_shape, dim_transformer,
                 positional_encodings, calls, ret>>

(***************************************************************************)
(* Bounds of the model.                                                    *)
(***************************************************************************)
MaxQueries == 2        \* num_queries ranges over 1..MaxQueries
MaxBatch == 2          \* batches and batch_size range over 0..MaxBatch
MaxHeight == 2         \* feature map height ranges over 0..MaxHeight
MaxWidth == 2          \* feature map width ranges over 0..MaxWidth
MaxPosFeats == 4       \* num_pos_feats ranges over -1..MaxPosFeats
MaxCalls == 2          \* __call__ invocations followed per DataFeeder
MaxSlots == 3          \* slots per sample of a directly given class array
MaxSamples == 3        \* samples of a directly given class array

Unused == "unused"
NotCalled == "not called"

(***************************************************************************)
(* numpy / tensorflow primitives used by data_feeder.py.                   *)
(***************************************************************************)
RECURSIVE Prod(_)
Prod(shape) == IF shape = <<>> THEN 1 ELSE Head(shape) * Prod(Tail(shape))

Leading(shape) == SubSeq(shape, 1, Len(shape) - 1)
Last(shape) == shape[Len(shape)]

\* np.arange(lo, hi)
np_arange(lo, hi) == IF hi > lo THEN [i \in 1..(hi - lo) |-> lo + i - 1] ELSE <<>>

\* np.repeat(a, n) of a one-dimensional a: every element n times in a row
np_repeat1(a, n) ==
    IF Len(a) * n > 0 THEN [i \in 1..(Len(a) * n) |-> a[((i - 1) \div n) + 1]] ELSE <<>>

\* a.reshape(shape): same elements, new shape
np_reshape(flat, shape) == [shape |-> shape, flat |-> flat]

\* np.full(shape=(h, w), fill_value=row): row is broadcast along the last axis
np_full_row(h, w, row) ==
    [shape |-> <<h, w>>,
     flat |-> IF h * w > 0 THEN [i \in 1..(h * w) |-> row[((i - 1) % w) + 1]] ELSE <<>>]

\* a[:, :, None] / d for a of shape (h, w) and d of shape (f,): shape (h, w, f)
np_divide_outer(a, d) ==
    LET f == Len(d)
        n == Prod(a.shape) * f
    IN [shape |-> a.shape \o <<f>>,
        flat |-> IF n > 0
                 THEN [i \in 1..n |-> <<a.flat[((i - 1) \div f) + 1], d[((i - 1) % f) + 1]>>]
                 ELSE <<>>]

\* a[..., start::step] along the last axis
np_slice_last(a, start, step) ==
    LET n == Last(a.shape)
        m == IF n > start THEN (n - start + step - 1) \div step ELSE 0
        rows == Prod(Leading(a.shape))
    IN [shape |-> Leading(a.shape) \o <<m>>,
        flat |-> IF rows * m > 0
                 THEN [i \in 1..(rows * m) |->
                         a.flat[((i - 1) \div m) * n + start + ((i - 1) % m) * step + 1]]
                 ELSE <<>>]

\* np.sin(a), elementwise
np_sin(a) ==
    [shape |-> a.shape,
     flat |-> IF Len(a.flat) > 0
              THEN [i \in 1..Len(a.flat) |-> <<"sin", a.flat[i][1], a.flat[i][2]>>]
              ELSE <<>>]

\* np.concatenate([a, b], axis=last)
np_concatenate_last(a, b) ==
    LET na == Last(a.shape)
        nb == Last(b.shape)
        n == na + nb
        rows == Prod(Leading(a.shape))
    IN [shape |-> Leading(a.shape) \o <<n>>,
        flat |-> IF rows * n > 0
                 THEN [i \in 1..(rows * n) |->
                         LET r == (i - 1) \div n
                             k == ((i - 1) % n) + 1
                         IN IF k <= na THEN a.flat[r * na + k]
                                       ELSE b.flat[r * nb + (k - na)]]
                 ELSE <<>>]

\* np.expand_dims(a, 0)
np_expand_dims0(a) == [shape |-> <<1>> \o a.shape, flat |-> a.flat]

\* Faulty variant: np.repeat(a, n, axis=1), which repeats the rows of the grid.
np_repeat_axis0Wrong(a, n) ==
    LET slab == Prod(Tail(Tail(a.shape)))
        total == Prod(a.shape) * n
    IN [shape |-> <<a.shape[1], a.shape[2] * n>> \o Tail(Tail(a.shape)),
        flat |-> IF total > 0
                 THEN [i \in 1..total |->
                         a.flat[(((i - 1) \div slab) \div n) * slab + ((i - 1) % slab) + 1]]
                 ELSE <<>>]

\* np.repeat(a, n, axis=0): every slab along axis 0 is repeated n times in a row
np_repeat_axis0(a, n) ==
    LET slab == Prod(Tail(a.shape))
        total == Prod(a.shape) * n
    IN [shape |-> <<a.shape[1] * n>> \o Tail(a.shape),
        flat |-> IF total > 0
                 THEN [i \in 1..total |->
                         a.flat[(((i - 1) \div slab) \div n) * slab + ((i - 1) % slab) + 1]]
                 ELSE <<>>]

\* tf.convert_to_tensor(a, dtype=tf.float32)
tf_convert_to_tensor(a) == [shape |-> a.shape, flat |-> a.flat, dtype |-> "float32"]

\* tf.reshape(t, shape): the element count must match
tf_reshape(t, shape) ==
    IF Prod(shape) = Prod(t.shape)
    THEN [status |-> "returned",
          tensor |-> [shape |-> shape, flat |-> t.flat, dtype |-> t.dtype]]
    ELSE [status |-> "InvalidArgumentError"]

\* t[b, r, c] of a three-dimensional tensor, indices from 0
At3(t, b, r, c) == t.flat[(b * t.shape[2] + r) * t.shape[3] + c + 1]

(***************************************************************************)
(* create_positional_encodings                                             *)
(***************************************************************************)
\* div_term = np.arange(num_pos_feats); 10000 ** (2 * (div_term // 2) / num_pos_feats):
\* entry j is kept as its exponent index div_term[j] // 2
div_term(num_pos_feats) ==
    LET d == np_arange(0, num_pos_feats)
    IN IF Len(d) > 0 THEN [j \in 1..Len(d) |-> d[j] \div 2] ELSE <<>>

\* Faulty variant: the second slice starts at 2 instead of 1.
sin_even_unevenDropsUneven(pos) ==
    np_concatenate_last(np_sin(np_slice_last(pos, 0, 2)), np_sin(np_slice_last(pos, 2, 2)))

\* Faulty variant: the channels keep their order (no regrouping).
sin_even_unevenInterleaved(pos) == np_sin(pos)

\* np.concatenate([np.sin(pos[:, :, 0::2]), np.sin(pos[:, :, 1::2])], axis=2)
sin_even_uneven(pos) ==
    np_concatenate_last(np_sin(np_slice_last(pos, 0, 2)), np_sin(np_slice_last(pos, 1, 2)))

create_positional_encodings(shape, num_pos_feats, batch_size) ==
    LET height == shape[1]
        width == shape[2]
        y_embed == np_reshape(np_repeat1(np_arange(1, height + 1), width), <<height, width>>)
        x_embed == np_full_row(height, width, np_arange(1, width + 1))
        div == div_term(num_pos_feats)
        pos_x == sin_even_uneven(np_divide_outer(x_embed, div))
        pos_y == sin_even_uneven(np_divide_outer(y_embed, div))
        stacked == np_repeat_axis0(np_expand_dims0(np_concatenate_last(pos_y, pos_x)),
                                   batch_size)
        tensor == tf_convert_to_tensor(stacked)
    IN tf_reshape(tensor, <<batch_size, height * width, tensor.shape[4]>>)

(***************************************************************************)
(* Direct calls of create_positional_encodings.                            *)
(***************************************************************************)
FmShapes == {<<h, w, 1>> : h \in 0..MaxHeight, w \in 0..MaxWidth}

InitPE ==
    /\ call_args \in [fm_shape : FmShapes, num_pos_feats : (0 - 1)..MaxPosFeats]
    /\ call_result = [status |-> NotCalled]
    /\ prev_result = [status |-> NotCalled]
    /\ storage = Unused /\ num_queries = Unused /\ num_classes = Unused
    /\ fm_shape = Unused /\ dim_transformer = Unused
    /\ positional_encodings = Unused /\ calls = 0 /\ ret = Unused

CallCreatePositionalEncodings ==
    \E batch_size \in 0..MaxBatch :
        /\ prev_result' = call_result
        /\ call_result' = [batch_size |-> batch_size] @@
                           create_positional_encodings(
                               call_args.fm_shape, call_args.num_pos_feats, batch_size)
        /\ UNCHANGED <<call_args, feeder_vars>>

NextPE == CallCreatePositionalEncodings

SpecPE == InitPE /\ [][NextPE]_vars

(***************************************************************************)
(* labels_to_targets                                                       *)
(***************************************************************************)
\* np.full(shape=(rows, cols), fill_value=v)
np_full(rows, cols, v) == [r \in 1..rows |-> [c \in 1..cols |-> v]]

\* The loop "for idx, labeled_obj in enumerate(sample_labels)": the writes to
\* rows idx < queries land in the arrays; a write to a row idx >= queries
\* is outside both buffers and is recorded in out_of_bounds (indices from 0).
RECURSIVE write_labels(_, _, _, _)
write_labels(acc, sample_labels, idx, queries) ==
    IF idx >= Len(sample_labels) THEN acc
    ELSE LET labeled_obj == sample_labels[idx + 1]
             cls_label == labeled_obj[1]
             x == labeled_obj[2]
             y == labeled_obj[3]
             w == labeled_obj[4]
             h == labeled_obj[5]
         IN IF idx < queries
            THEN write_labels(
                     [acc EXCEPT !.sample_cls[idx + 1] = <<cls_label>>,
                                 !.sample_bbox[idx + 1] = <<x, y, w, h>>],
                     sample_labels, idx + 1, queries)
            ELSE write_labels(
                     [acc EXCEPT !.out_of_bounds = acc.out_of_bounds \cup {idx}],
                     sample_labels, idx + 1, queries)

\* Faulty variant: the arrays are initialised with 0 instead of num_classes.
labels_to_targetsZeroPadded(sample_labels, queries, classes) ==
    write_labels([sample_cls |-> np_full(queries, 1, 0),
                  sample_bbox |-> np_full(queries, 4, 0),
                  out_of_bounds |-> {}],
                 sample_labels, 0, queries)

labels_to_targets(sample_labels, queries, classes) ==
    write_labels([sample_cls |-> np_full(queries, 1, classes),
                  sample_bbox |-> np_full(queries, 4, classes),
                  out_of_bounds |-> {}],
                 sample_labels, 0, queries)

\* An out-of-bounds write of the compiled kernel is undefined: a build that
\* checks bounds (object mode, NUMBA_BOUNDSCHECK) raises IndexError at the first
\* such write; a build that does not writes past the buffer, after which the
\* process either dies or carries on and returns the arrays.
outcomes(targets) ==
    IF targets.out_of_bounds = {} THEN {"returned"}
    ELSE {"returned", "IndexError", "crashed"}

(***************************************************************************)
(* retrieve_obj_indices                                                    *)
(***************************************************************************)
Padding == 4     \* the literal 4.0 of "sample != 4.0"

\* len(np.where(sample != 4.0)[0]) for a sample of shape (#Queries, 1)
num_objects(sample) == Cardinality({r \in 1..Len(sample) : sample[r][1] # Padding})

\* The loop over the batch; idx counts from 0.
RECURSIVE retrieve_loop(_, _, _, _)
retrieve_loop(batch_cls, idx, obj_indices, last_num_objects) ==
    IF idx >= Len(batch_cls) THEN obj_indices
    ELSE LET num_objects_in_sample == num_objects(batch_cls[idx + 1])
         IN IF idx = 0
            THEN retrieve_loop(batch_cls, idx + 1,
                               Append(obj_indices, np_arange(0, num_objects_in_sample)),
                               num_objects_in_sample)
            ELSE LET start == last_num_objects
                     upto == last_num_objects + num_objects_in_sample
                 IN retrieve_loop(batch_cls, idx + 1,
                                  Append(obj_indices, np_arange(start, upto)), upto)

\* Faulty variant: last_num_objects is set to the count of the sample instead
\* of the running total upto.
RECURSIVE retrieve_loopStaleOffset(_, _, _, _)
retrieve_loopStaleOffset(batch_cls, idx, obj_indices, last_num_objects) ==
    IF idx >= Len(batch_cls) THEN obj_indices
    ELSE LET num_objects_in_sample == num_objects(batch_cls[idx + 1])
         IN IF idx = 0
            THEN retrieve_loopStaleOffset(batch_cls, idx + 1,
                               Append(obj_indices, np_arange(0, num_objects_in_sample)),
                               num_objects_in_sample)
            ELSE LET start == last_num_objects
                     upto == last_num_objects + num_objects_in_sample
                 IN retrieve_loopStaleOffset(batch_cls, idx + 1,
                                  Append(obj_indices, np_arange(start, upto)),
                                  num_objects_in_sample)

retrieve_obj_indicesStaleOffset(batch_cls) == retrieve_loopStaleOffset(batch_cls, 0, <<>>, 0)

retrieve_obj_indices(batch_cls) == retrieve_loop(batch_cls, 0, <<>>, 0)

(***************************************************************************)
(* Direct calls of labels_to_targets.                                      *)
(***************************************************************************)
\* sequences over S of length lo..hi
SeqsOf(S, lo, hi) == UNION {[1..n -> S] : n \in lo..hi}

\* label rows [class, x_center, y_center, width, height]
BBoxes == {<<0, 0, 1, 1>>, <<1, 0, 0, 1>>}
Labels(classes) == {<<c>> \o b : c \in 0..(classes - 1), b \in BBoxes}
NumClasses == {1, 2, 4}

InitTargets ==
    /\ \E queries \in 1..MaxQueries, classes \in NumClasses :
         \E sample_labels \in SeqsOf(Labels(classes), 0, queries + 1) :
            call_args = [sample_labels |-> sample_labels,
                         num_queries |-> queries, num_classes |-> classes]
    /\ call_result = [status |-> NotCalled]
    /\ prev_result = [status |-> NotCalled]
    /\ storage = Unused /\ num_queries = Unused /\ num_classes = Unused
    /\ fm_shape = Unused /\ dim_transformer = Unused
    /\ positional_encodings = Unused /\ calls = 0 /\ ret = Unused

CallLabelsToTargets ==
    LET targets == labels_to_targets(call_args.sample_labels, call_args.num_queries,
                                     call_args.num_classes)
    IN \E status \in outcomes(targets) :
        /\ prev_result' = call_result
        /\ call_result' = [status |-> status,
                           out_of_bounds |-> targets.out_of_bounds,
                           sample_cls |-> IF status = "returned"
                                          THEN targets.sample_cls ELSE <<>>,
                           sample_bbox |-> IF status = "returned"
                                           THEN targets.sample_bbox ELSE <<>>]
        /\ UNCHANGED <<call_args, feeder_vars>>

NextTargets == CallLabelsToTargets

SpecTargets == InitTargets /\ [][NextTargets]_vars

(***************************************************************************)
(* Direct calls of retrieve_obj_indices on arbitrary class arrays.         *)
(***************************************************************************)
SlotValues == {0, 4}

InitIndices ==
    /\ \E queries \in 1..MaxSlots :
         \E batch_cls \in SeqsOf([1..queries -> {<<v>> : v \in SlotValues}], 0, MaxSamples) :
            call_args = [batch_cls |-> batch_cls]
    /\ call_result = [status |-> NotCalled]
    /\ prev_result = [status |-> NotCalled]
    /\ storage = Unused /\ num_queries = Unused /\ num_classes = Unused
    /\ fm_shape = Unused /\ dim_transformer = Unused
    /\ positional_encodings = Unused /\ calls = 0 /\ ret = Unused

CallRetrieveObjIndices ==
    /\ prev_result' = call_result
    /\ call_result' = [status |-> "returned",
                       obj_indices |-> retrieve_obj_indices(call_args.batch_cls)]
    /\ UNCHANGED <<call_args, feeder_vars>>

NextIndices == CallRetrieveObjIndices

SpecIndices == InitIndices /\ [][NextIndices]_vars

(***************************************************************************)
(* DataFeeder                                                              *)
(***************************************************************************)
UUIDs == {"a", "b"}

\* A label file holds at least one row (loadlabel reshapes a single row to
\* (1, 5)) and its classes are below num_classes.  The file of k rows
\* alternates between an object of class 0 and one of class num_classes - 1.
StoredLabels(k, classes) ==
    [i \in 1..k |-> IF i % 2 = 1 THEN <<0, 0, 0, 1, 1>> ELSE <<classes - 1, 1, 0, 0, 1>>]
Storages(queries, classes) ==
    [UUIDs -> {StoredLabels(k, classes) : k \in 1..(queries + 1)}]

FeederNumClasses == {2, 4, 5}
FeederDims == {2, 3}
FeederFmShape == <<2, 1, 1>>

\* DataFeeder.__init__ (np.int32 holds the small configuration values exactly)
DataFeeder_init(store, queries, classes, shape, dim, batch_size) ==
    /\ storage = store
    /\ num_queries = queries
    /\ num_classes = classes
    /\ fm_shape = shape
    /\ dim_transformer = dim
    /\ positional_encodings =
           create_positional_encodings(shape, dim \div 2, batch_size).tensor
    /\ calls = 0
    /\ ret = [status |-> NotCalled]

Init ==
    /\ \E queries \in 1..MaxQueries, classes \in FeederNumClasses, dim \in FeederDims,
          batch_size \in 1..MaxBatch :
         \E store \in Storages(queries, classes) :
            DataFeeder_init(store, queries, classes, FeederFmShape, dim, batch_size)
    /\ call_args = Unused
    /\ call_result = [status |-> Unused]
    /\ prev_result = [status |-> Unused]

\* DataFeeder.load_data / loadlabel: the label rows of every uuid, in batch order
load_data(batch_uuids) == [i \in 1..Len(batch_uuids) |-> storage[batch_uuids[i]]]

\* tf.ragged.constant(obj_indices, dtype=tf.int64): the rows, as 64-bit integers
tf_ragged_constant(rows) == [rows |-> rows, dtype |-> "int64"]

\* start of range i when the ranges follow one another from 0
RECURSIVE RangeStart(_, _)
RangeStart(rows, i) == IF i = 1 THEN 0 ELSE RangeStart(rows, i - 1) + Len(rows[i - 1])

RECURSIVE Flatten(_)
Flatten(rows) == IF rows = <<>> THEN <<>> ELSE Head(rows) \o Flatten(Tail(rows))

\* Faulty variant: the running offset of the index ranges is kept on the
\* feeder and continues from the previous call.
DataFeeder_returnCarriesOffset(batch_uuids) ==
    LET batch_labels == load_data(batch_uuids)
        targets == [i \in 1..Len(batch_uuids) |->
                      labels_to_targets(batch_labels[i], num_queries, num_classes)]
        batch_cls == [i \in 1..Len(batch_uuids) |-> targets[i].sample_cls]
        batch_bbox == [i \in 1..Len(batch_uuids) |-> targets[i].sample_bbox]
        rows == retrieve_obj_indices(batch_cls)
        carried == IF ret.status # "returned" THEN 0
                   ELSE Len(Flatten(ret.obj_indices.rows))
    IN [batch_uuids |-> batch_uuids,
        out_of_bounds |-> UNION {targets[i].out_of_bounds : i \in 1..Len(batch_uuids)},
        batch_cls |-> batch_cls,
        batch_bbox |-> batch_bbox,
        obj_indices |-> tf_ragged_constant(
            [i \in 1..Len(rows) |-> np_arange(carried + RangeStart(rows, i),
                                              carried + RangeStart(rows, i) + Len(rows[i]))]),
        positional_encodings |-> positional_encodings]

\* The body of DataFeeder.__call__ up to its return value (the images are
\* passed through untouched and are left out).
DataFeeder_return(batch_uuids) ==
    LET batch_labels == load_data(batch_uuids)
        targets == [i \in 1..Len(batch_uuids) |->
                      labels_to_targets(batch_labels[i], num_queries, num_classes)]
        batch_cls == [i \in 1..Len(batch_uuids) |-> targets[i].sample_cls]
        batch_bbox == [i \in 1..Len(batch_uuids) |-> targets[i].sample_bbox]
    IN [batch_uuids |-> batch_uuids,
        out_of_bounds |-> UNION {targets[i].out_of_bounds : i \in 1..Len(batch_uuids)},
        batch_cls |-> batch_cls,
        batch_bbox |-> batch_bbox,
        obj_indices |-> tf_ragged_constant(retrieve_obj_indices(batch_cls)),
        positional_encodings |-> positional_encodings]

\* DataFeeder.__call__
DataFeeder_call(batch_uuids) ==
    /\ calls < MaxCalls
    /\ ret.status # "crashed"
    /\ LET r == DataFeeder_return(batch_uuids)
       IN \E status \in outcomes(r) :
            ret' = IF status = "returned"
                   THEN [status |-> status] @@ r
                   ELSE [status |-> status, batch_uuids |-> batch_uuids,
                         out_of_bounds |-> r.out_of_bounds]
    /\ calls' = calls + 1
    /\ UNCHANGED <<storage, num_queries, num_classes, fm_shape, dim_transformer,
                   positional_encodings, call_args, call_result, prev_result>>

Next == \E batch_uuids \in SeqsOf(UUIDs, 1, MaxBatch) : DataFeeder_call(batch_uuids)

Spec == Init /\ [][Next]_vars

(***************************************************************************)
(* Properties.                                                             *)
(***************************************************************************)
Returned == ret.status = "returned"
Called == call_result.status # NotCalled

\* C1: for every configured padding value num_classes, the range emitted for
\* sample i is as long as the number of slots of that sample's class target
\* that differ from num_classes.  The code compares against the literal 4.0.
C1_RangeLengthIsObjectCount ==
    (Returned /\ ret.out_of_bounds = {}) =>
        \A i \in 1..Len(ret.batch_cls) :
            Len(ret.obj_indices.rows[i]) =
                Cardinality({r \in 1..Len(ret.batch_cls[i]) :
                                ret.batch_cls[i][r][1] # num_classes})

ObjectSlots(sample) == Cardinality({r \in 1..Len(sample) : sample[r][1] = 0})

\* C2: the ranges of retrieve_obj_indices are contiguous and non-overlapping
\* in batch order: one range per sample, the first starts at 0, each later
\* one starts where the previous one ended (also after an empty range), each
\* is ascending, and together they are exactly 0..N-1; counts [1,3,1] give
\* [[0],[1,2,3],[4]].
C2_RangesContiguous ==
    Called =>
        LET rows == call_result.obj_indices
            batch_cls == call_args.batch_cls
            N == Len(Flatten(rows))
        IN /\ Len(rows) = Len(batch_cls)
           /\ \A i \in 1..Len(rows) :
                \A j \in 1..Len(rows[i]) : rows[i][j] = RangeStart(rows, i) + j - 1
           /\ Len(Flatten(rows)) = N
           /\ \A n \in 1..N : Flatten(rows)[n] = n - 1
           /\ (Len(batch_cls) = 3 /\ ObjectSlots(batch_cls[1]) = 1
                 /\ ObjectSlots(batch_cls[2]) = 3 /\ ObjectSlots(batch_cls[3]) = 1)
              => rows = <<(<<0>>), <<1, 2, 3>>, (<<4>>)>>

C2_Witness ==
    /\ Called
    /\ Len(call_args.batch_cls) = 3
    /\ call_result.obj_indices = <<(<<0>>), <<1, 2, 3>>, (<<4>>)>>

C2_WitnessEmptyRange ==
    /\ Called
    /\ Len(call_args.batch_cls) = 3
    /\ call_result.obj_indices = <<(<<0>>), <<>>, (<<1>>)>>

\* C3: for k <= Q label rows, labels_to_targets returns Q class slots and Q
\* bbox rows of 4; slot idx < k holds the class and (x, y, w, h) of the idx-th
\* label in input order, every slot idx >= k holds num_classes.
C3_TargetsLeftPacked ==
    (Called /\ Len(call_args.sample_labels) <= call_args.num_queries) =>
        LET labels == call_args.sample_labels
            k == Len(labels)
            Q == call_args.num_queries
            C == call_args.num_classes
        IN /\ call_result.status = "returned"
           /\ Len(call_result.sample_cls) = Q
           /\ Len(call_result.sample_bbox) = Q
           /\ \A r \in 1..Q : /\ Len(call_result.sample_cls[r]) = 1
                              /\ Len(call_result.sample_bbox[r]) = 4
           /\ \A r \in 1..k :
                /\ call_result.sample_cls[r] = <<labels[r][1]>>
                /\ call_result.sample_bbox[r] =
                       <<labels[r][2], labels[r][3], labels[r][4], labels[r][5]>>
           /\ \A r \in (k + 1)..Q :
                /\ call_result.sample_cls[r] = <<C>>
                /\ call_result.sample_bbox[r] = <<C, C, C, C>>

C3_Witness ==
    /\ Called
    /\ call_args.num_queries = 2
    /\ call_args.num_classes = 4
    /\ call_args.sample_labels = <<(<<3, 1, 0, 0, 1>>)>>
    /\ call_result.sample_cls = <<(<<3>>), (<<4>>)>>
    /\ call_result.sample_bbox = <<(<<1, 0, 0, 1>>), (<<4, 4, 4, 4>>)>>

\* C4: a sample with k > Q label rows is handled explicitly: the call ends in
\* a capacity error or in a truncation with a warning, and no write to a
\* slot index >= Q is attempted.
C4_OverCapacityHandled ==
    (Called /\ Len(call_args.sample_labels) > call_args.num_queries) =>
        /\ call_result.status \in {"CapacityError", "truncated with warning"}
        /\ call_result.out_of_bounds = {}

\* ceil(F / 2): the number of even-indexed channels among F
Evens(F) == (F + 1) \div 2

CalledPE ==
    /\ call_result.status = "returned"
    /\ call_args.fm_shape[1] >= 1
    /\ call_args.fm_shape[2] >= 1
    /\ call_args.num_pos_feats >= 1
    /\ call_result.batch_size >= 1

\* C5 as stated: in row r = h*W + w, channel j of the y block is
\* sin((h+1)/div(j)) and channel j of the x block (channel F + j) is
\* sin((w+1)/div(j)), with the divisor of index floor(j/2), for every F.
C5_ChannelUsesFloorHalf ==
    CalledPE =>
        LET t == call_result.tensor
            H == call_args.fm_shape[1]
            W == call_args.fm_shape[2]
            F == call_args.num_pos_feats
        IN \A b \in 0..(call_result.batch_size - 1), h \in 0..(H - 1), w \in 0..(W - 1),
              j \in 0..(F - 1) :
                /\ At3(t, b, h * W + w, j) = <<"sin", h + 1, j \div 2>>
                /\ At3(t, b, h * W + w, F + j) = <<"sin", w + 1, j \div 2>>

\* C5 as amended: the y block precedes the x block, and within each block the
\* even-indexed source channels come first and the odd-indexed ones after
\* them: channel j is source channel s(j) = 2j for j < ceil(F/2) and
\* s(j) = 2(j - ceil(F/2)) + 1 otherwise, and uses the divisor of index
\* floor(s(j)/2).
C5_ChannelUsesRegroupedIndex ==
    CalledPE =>
        LET t == call_result.tensor
            H == call_args.fm_shape[1]
            W == call_args.fm_shape[2]
            F == call_args.num_pos_feats
            s(j) == IF j < Evens(F) THEN 2 * j ELSE 2 * (j - Evens(F)) + 1
        IN \A b \in 0..(call_result.batch_size - 1), h \in 0..(H - 1), w \in 0..(W - 1),
              j \in 0..(F - 1) :
                /\ At3(t, b, h * W + w, j) = <<"sin", h + 1, s(j) \div 2>>
                /\ At3(t, b, h * W + w, F + j) = <<"sin", w + 1, s(j) \div 2>>

C5_Witness ==
    /\ CalledPE
    /\ call_args.fm_shape[1] = 2
    /\ call_args.fm_shape[2] = 2
    /\ call_args.num_pos_feats = 3
    /\ At3(call_result.tensor, 0, 1, 1) = <<"sin", 1, 1>>
    /\ At3(call_result.tensor, 0, 1, 5) = <<"sin", 2, 0>>

\* C6: the positional encodings returned by __call__ have the shape
\* [number of uuids of the call, H*W, dim_transformer], for every batch and
\* every dim_transformer >= 2, odd values included.
C6_ReturnedShape ==
    Returned =>
        ret.positional_encodings.shape =
            <<Len(ret.batch_uuids), fm_shape[1] * fm_shape[2], dim_transformer>>

\* C7: for H, W, F, B >= 1 (odd F included) the result has the shape
\* [B, H*W, 2F], with exactly that many elements.
C7_ShapeLaw ==
    CalledPE =>
        LET t == call_result.tensor
            H == call_args.fm_shape[1]
            W == call_args.fm_shape[2]
            F == call_args.num_pos_feats
            B == call_result.batch_size
        IN /\ t.shape = <<B, H * W, 2 * F>>
           /\ Len(t.flat) = B * H * W * 2 * F

C7_Witness ==
    /\ CalledPE
    /\ call_args.num_pos_feats = 3
    /\ call_args.fm_shape[1] = 2
    /\ call_result.batch_size = 2
    /\ call_result.tensor.shape = <<2, 2 * call_args.fm_shape[2], 6>>

\* C8: the encoding depends on (H, W, F) only: for two calls with the same
\* (H, W, F) and any batch sizes B and B', every batch slice of one result
\* equals every batch slice of the other.
C8_BatchOnlyReplicates ==
    (CalledPE /\ prev_result.status = "returned") =>
        LET t == call_result.tensor
            u == prev_result.tensor
        IN /\ t.shape[2] = u.shape[2]
           /\ t.shape[3] = u.shape[3]
           /\ \A b \in 0..(call_result.batch_size - 1),
                 bb \in 0..(prev_result.batch_size - 1),
                 r \in 0..(t.shape[2] - 1), c \in 0..(t.shape[3] - 1) :
                    /\ At3(t, b, r, c) = At3(u, bb, r, c)
                    /\ At3(t, b, r, c) = At3(t, 0, r, c)

C8_Witness ==
    /\ CalledPE
    /\ prev_result.status = "returned"
    /\ call_result.batch_size = 2
    /\ prev_result.batch_size = 1
    /\ call_args.fm_shape[1] = 2
    /\ call_args.fm_shape[2] = 2
    /\ call_args.num_pos_feats = 2

\* C9: a non-positive feature count F, or a grid of zero height or width, is
\* rejected with a configuration error and no tensor is produced.
C9_BadConfigRejected ==
    (Called /\ (\/ call_args.num_pos_feats <= 0
                \/ call_args.fm_shape[1] = 0
                \/ call_args.fm_shape[2] = 0)) =>
        call_result.status = "ConfigurationError"

\* C10: across __call__ invocations of one DataFeeder the returned targets and
\* index ranges depend only on the labels of the batch (the ranges restart at
\* 0 on every call, whatever came before), and the positional encodings
\* returned are the ones held since construction, which no call changes.
C10_Step ==
    /\ positional_encodings' = positional_encodings
    /\ ret'.status = "returned" =>
         /\ ret'.positional_encodings = positional_encodings
         /\ Flatten(ret'.obj_indices.rows) =
                np_arange(0, Len(Flatten(ret'.obj_indices.rows)))
         /\ (ret.status = "returned"
               /\ load_data(ret.batch_uuids) = load_data(ret'.batch_uuids)) =>
                /\ ret'.batch_cls = ret.batch_cls
                /\ ret'.batch_bbox = ret.batch_bbox
                /\ ret'.obj_indices = ret.obj_indices

C10_Stateless == [][C10_Step]_vars

C10_Witness ==
    /\ calls >= 2
    /\ Returned
    /\ ret.out_of_bounds = {}
    /\ Len(ret.batch_uuids) = 2
    /\ Len(Flatten(ret.obj_indices.rows)) >= 2

====
